---- MODULE Spec2Model ----
(***************************************************************************)
(* A model of smoqe/query.py: the compiler of the simple filter language   *)
(* ("a > 3 and b = 'hello' or c type int") into MongoDB query documents.   *)
(*                                                                         *)
(* Representation.                                                         *)
(*   - An input text is a sequence of one-character strings, so that the   *)
(*     splitting, stripping and matching of the source are computed        *)
(*     character by character.                                             *)
(*   - A Python value is a record [t |-> tag, v |-> payload]; the tags are *)
(*     "int", "float", "bool", "str", "type", "regex", "doc", "list".      *)
(*   - A dict is a function from key strings to such values; {} is <<>>.   *)
(*   - The outcome of a call is [exc |-> name, val |-> result]: exc = ""   *)
(*     for a normal return, otherwise the class of the exception raised    *)
(*     and val the expression the exception carries.                       *)
(*                                                                         *)
(* The state is one call of to_mongo: src says how the argument was put    *)
(* together (which constraints, in which groups, in which input form), qry *)
(* is the argument itself, pc the position of the call and out its         *)
(* outcome.                                                                *)
(***************************************************************************)
EXTENDS Integers, Sequences, FiniteSets, TLC

VARIABLES src, qry, pc, out

vars == <<src, qry, pc, out>>

----------------------------------------------------------------------------
(* Characters *)

Lower == {"a","b","c","d","e","f","g","h","i","j","k","l","m",
          "n","o","p","q","r","s","t","u","v","w","x","y","z"}

Upper == {"A","B","C","D","E","F","G","H","I","J","K","L","M",
          "N","O","P","Q","R","S","T","U","V","W","X","Y","Z"}

Digits == {"0","1","2","3","4","5","6","7","8","9"}

DigitSeq == <<"0","1","2","3","4","5","6","7","8","9">>

UpperSeq == <<"A","B","C","D","E","F","G","H","I","J","K","L","M",
              "N","O","P","Q","R","S","T","U","V","W","X","Y","Z">>

LowerSeq == <<"a","b","c","d","e","f","g","h","i","j","k","l","m",
              "n","o","p","q","r","s","t","u","v","w","x","y","z">>

\* \s of the regular expression and the whitespace of str.strip()
IsSpace(c) == c \in {" ", "\t", "\n"}

\* [a-zA-Z_.0-9]
IsIdChar(c) == c \in Lower \cup Upper \cup Digits \cup {"_", "."}

\* [a-zA-Z_]
IsIdStart(c) == c \in Lower \cup Upper \cup {"_"}

\* the text of a character sequence
RECURSIVE Str(_)
Str(s) == IF s = <<>> THEN "" ELSE Head(s) \o Str(Tail(s))

LowerChar(c) ==
    IF c \in Upper
    THEN LowerSeq[CHOOSE i \in 1..26 : UpperSeq[i] = c]
    ELSE c

\* str.lower()
ToLower(s) == [i \in 1..Len(s) |-> LowerChar(s[i])]

DigitVal(c) == (CHOOSE i \in 1..10 : DigitSeq[i] = c) - 1

\* the number a run of decimal digits denotes
RECURSIVE DigitsVal(_)
DigitsVal(s) ==
    IF s = <<>> THEN 0
    ELSE 10 * DigitsVal(SubSeq(s, 1, Len(s) - 1)) + DigitVal(s[Len(s)])

\* str(n) for a natural number
RECURSIVE NatStr(_)
NatStr(n) == IF n < 10 THEN DigitSeq[n + 1]
             ELSE NatStr(n \div 10) \o DigitSeq[(n % 10) + 1]

\* str(n) for an integer
IntStr(n) == IF n < 0 THEN "-" \o NatStr(0 - n) ELSE NatStr(n)

\* s[p..p+len(w)-1] = w
StartsWith(s, p, w) ==
    /\ p + Len(w) - 1 <= Len(s)
    /\ SubSeq(s, p, p + Len(w) - 1) = w

\* index of the first occurrence of w in s at or after p, 0 when none
RECURSIVE Find(_, _, _)
Find(s, w, p) ==
    IF p + Len(w) - 1 > Len(s) THEN 0
    ELSE IF StartsWith(s, p, w) THEN p
    ELSE Find(s, w, p + 1)

----------------------------------------------------------------------------
(* String helpers of the standard library, as to_mongo uses them *)

WhiteSpace == {" ", "\t", "\n"}

RECURSIVE LStrip(_, _)
LStrip(s, cs) == IF s # <<>> /\ Head(s) \in cs THEN LStrip(Tail(s), cs) ELSE s

RECURSIVE RStrip(_, _)
RStrip(s, cs) ==
    IF s # <<>> /\ s[Len(s)] \in cs THEN RStrip(SubSeq(s, 1, Len(s) - 1), cs) ELSE s

\* str.strip() with cs the characters to drop
Strip(s, cs) == RStrip(LStrip(s, cs), cs)

\* str.split(sep): the pieces between the non-overlapping occurrences of sep,
\* found from the left
RECURSIVE Split(_, _)
Split(s, sep) ==
    LET i == Find(s, sep, 1)
    IN  IF i = 0 THEN <<s>>
        ELSE <<SubSeq(s, 1, i - 1)>> \o Split(SubSeq(s, i + Len(sep), Len(s)), sep)

\* _TOK_OR, _TOK_AND
TOK_OR == <<" ", "o", "r", " ">>

TOK_AND == <<" ", "a", "n", "d", " ">>

\* a variant of unpar that strips whitespace only and keeps the parentheses
unpar_space(s) == Strip(s, WhiteSpace)

\* unpar = lambda s: s.strip().strip('()')
unpar(s) == Strip(Strip(s, WhiteSpace), {"(", ")"})

----------------------------------------------------------------------------
(* relation_re and parse_expr *)

\* first position at or after p that holds no whitespace: \s*
RECURSIVE SkipSpace(_, _)
SkipSpace(s, p) == IF p <= Len(s) /\ IsSpace(s[p]) THEN SkipSpace(s, p + 1) ELSE p

\* first position at or after p that holds no identifier character
RECURSIVE IdEnd(_, _)
IdEnd(s, p) == IF p <= Len(s) /\ IsIdChar(s[p]) THEN IdEnd(s, p + 1) ELSE p

\* first position at or after p that holds no digit
RECURSIVE DigitsEnd(_, _)
DigitsEnd(s, p) == IF p <= Len(s) /\ s[p] \in Digits THEN DigitsEnd(s, p + 1) ELSE p

\* The operator tokens of relation_re in the order in which the alternation
\* (with its greedy optional parts) tries them.
OpTokens == << <<"<", "=">>, <<"<">>, <<">", "=">>, <<">">>, <<"!", "=">>, <<"=">>,
               <<"e", "x", "i", "s", "t", "s">>, <<"~">>, <<"t", "y", "p", "e">>,
               <<"s", "i", "z", "e", ">">>, <<"s", "i", "z", "e", "<">>,
               <<"s", "i", "z", "e", "$">>, <<"s", "i", "z", "e">> >>

\* [-]?\d+(?:\.\d+)? at p: the position after the match, 0 when none
NumberEnd(s, p) ==
    LET d == IF p <= Len(s) /\ s[p] = "-" THEN p + 1 ELSE p
        e == DigitsEnd(s, d)
        f == IF e + 1 <= Len(s) /\ s[e] = "." THEN DigitsEnd(s, e + 1) ELSE e
    IN  IF e = d THEN 0
        ELSE IF f > e + 1 THEN f
        ELSE e

\* '[^']+' or "[^"]+" at p, q the quote: the position after the match, 0 when none
QuotedEnd(s, p, q) ==
    IF ~(p <= Len(s) /\ s[p] = q) THEN 0
    ELSE LET c == Find(s, <<q>>, p + 1)
         IN  IF c = 0 \/ c = p + 1 THEN 0 ELSE c + 1

\* [Tt]rue|[Ff]alse at p
BoolEnd(s, p) ==
    IF StartsWith(s, p, <<"t", "r", "u", "e">>) \/ StartsWith(s, p, <<"T", "r", "u", "e">>)
    THEN p + 4
    ELSE IF StartsWith(s, p, <<"f", "a", "l", "s", "e">>)
            \/ StartsWith(s, p, <<"F", "a", "l", "s", "e">>)
    THEN p + 5
    ELSE 0

\* [a-zA-Z_][a-zA-Z_.0-9]* at p
NameEnd(s, p) == IF p <= Len(s) /\ IsIdStart(s[p]) THEN IdEnd(s, p + 1) ELSE 0

\* the first element of ends that is not 0, 0 when there is none
FirstEnd(ends) ==
    IF \A i \in 1..Len(ends) : ends[i] = 0 THEN 0
    ELSE ends[CHOOSE i \in 1..Len(ends) : ends[i] # 0 /\ \A j \in 1..(i - 1) : ends[j] = 0]

\* the value group of relation_re at p: the first alternative that matches
ValueEnd(s, p) ==
    FirstEnd(<<NumberEnd(s, p), QuotedEnd(s, p, "'"), QuotedEnd(s, p, "\""),
               BoolEnd(s, p), NameEnd(s, p)>>)

\* the value group at q: where it starts and the position after it (0: none)
ValueSpan(s, q) == [q |-> q, e |-> ValueEnd(s, q)]

\* operator alternative k at p followed by \s* and the value group
OpValue(s, p, k) ==
    IF StartsWith(s, p, OpTokens[k])
    THEN ValueSpan(s, SkipSpace(s, p + Len(OpTokens[k])))
    ELSE [q |-> 0, e |-> 0]

\* of the operator alternatives with their values, the first that matched
FirstOp(s, spans) ==
    IF \A k \in 1..Len(spans) : spans[k].e = 0
    THEN [ok |-> FALSE, op |-> <<>>, val |-> <<>>]
    ELSE LET k == CHOOSE x \in 1..Len(spans) :
                      spans[x].e # 0 /\ \A y \in 1..(x - 1) : spans[y].e = 0
         IN  [ok |-> TRUE, op |-> OpTokens[k],
              val |-> SubSeq(s, spans[k].q, spans[k].e - 1)]

\* The rest of relation_re once the field group ended before position e:
\* \s* operator \s* value. The operator alternatives are tried in order and the
\* first one a value follows is taken.
RestMatch(s, e) ==
    FirstOp(s, [k \in 1..Len(OpTokens) |-> OpValue(s, SkipSpace(s, e), k)])

\* The positions right after a text the field group
\* [a-zA-Z_.0-9]+(?:/[a-zA-Z_.0-9]+)? can match from position p
FieldEnds(s, p) ==
    LET m == IdEnd(s, p)
        n == IF m <= Len(s) /\ s[m] = "/" THEN IdEnd(s, m + 1) ELSE m
    IN  IF m = p THEN {} ELSE ((p + 1)..m) \cup ((m + 2)..n)

\* relation_re.match(e): the match is anchored at the start only. Backtracking
\* gives the field up from its longest match, so the longest field after which
\* the rest matches is the one found.
LongestField(s, p, rests) ==
    IF \A e \in DOMAIN rests : ~rests[e].ok
    THEN [ok |-> FALSE, field |-> <<>>, op |-> <<>>, val |-> <<>>]
    ELSE LET e == CHOOSE x \in DOMAIN rests :
                      rests[x].ok /\ \A y \in DOMAIN rests : rests[y].ok => x >= y
         IN  [ok |-> TRUE, field |-> SubSeq(s, p, e - 1),
              op |-> rests[e].op, val |-> rests[e].val]

relation_re_match(s) ==
    LongestField(s, SkipSpace(s, 1),
                 [e \in FieldEnds(s, SkipSpace(s, 1)) |-> RestMatch(s, e)])

\* int(val) succeeds
IsIntText(v) ==
    LET d == IF v # <<>> /\ v[1] = "-" THEN 2 ELSE 1
    IN  d <= Len(v) /\ DigitsEnd(v, d) = Len(v) + 1

\* int(val)
IntOf(v) == IF v[1] = "-" THEN 0 - DigitsVal(Tail(v)) ELSE DigitsVal(v)

\* the words float() accepts besides decimal numbers
FloatWords == {<<"i", "n", "f">>, <<"n", "a", "n">>,
               <<"i", "n", "f", "i", "n", "i", "t", "y">>}

\* float(val) succeeds (val matched the value group, so a decimal number is
\* what NumberEnd accepts)
IsFloatText(v) == (v # <<>> /\ NumberEnd(v, 1) = Len(v) + 1) \/ ToLower(v) \in FloatWords

\* repr(float(val)): the integer part without leading zeros, the fraction
\* without trailing zeros
FloatRepr(v) ==
    IF ToLower(v) \in FloatWords
    THEN (IF ToLower(v) = <<"n", "a", "n">> THEN "nan" ELSE "inf")
    ELSE LET neg  == v[1] = "-"
             d    == IF neg THEN 2 ELSE 1
             e    == DigitsEnd(v, d)
             frac == RStrip(SubSeq(v, e + 1, Len(v)), {"0"})
         IN  (IF neg THEN "-" ELSE "") \o NatStr(DigitsVal(SubSeq(v, d, e - 1)))
             \o "." \o (IF frac = <<>> THEN "0" ELSE Str(frac))

\* re.match(r'".*"|\'.*\'', val)
IsQuoted(v) ==
    \/ v # <<>> /\ v[1] = "\"" /\ Find(v, <<"\"">>, 2) # 0
    \/ v # <<>> /\ v[1] = "'" /\ Find(v, <<"'">>, 2) # 0

\* The typed value parse_expr makes of the value text: integer, then float,
\* then boolean, then string (quotes stripped). A string value keeps its
\* characters; a float is held as its repr.
ValueOf(v) ==
    IF IsIntText(v) THEN [t |-> "int", v |-> IntOf(v)]
    ELSE IF IsFloatText(v) THEN [t |-> "float", v |-> FloatRepr(v)]
    ELSE IF ToLower(v) = <<"t", "r", "u", "e">> THEN [t |-> "bool", v |-> TRUE]
    ELSE IF ToLower(v) = <<"f", "a", "l", "s", "e">> THEN [t |-> "bool", v |-> FALSE]
    ELSE IF IsQuoted(v) THEN [t |-> "str", v |-> SubSeq(v, 2, Len(v) - 1)]
    ELSE [t |-> "str", v |-> v]

\* outcomes of a call: a normal return, or an exception raised
NoVal == [t |-> "none", v |-> <<>>]

Ok(v) == [exc |-> "", val |-> v]

Raise(e, v) == [exc |-> e, val |-> v]

\* parse_expr(e): ValueError when the text does not match, otherwise the field
\* text, the operator token and the typed value
parse_groups(m) ==
    IF ~m.ok THEN Raise("ValueError", NoVal)
    ELSE Ok([field |-> m.field, op |-> Str(m.op), val |-> ValueOf(m.val)])

parse_expr(e) == parse_groups(relation_re_match(e))

----------------------------------------------------------------------------
(* Field, ConstraintOperator, Constraint *)

PICK_SEP == "/"

\* Field.__init__: the name and, after the pick separator, the subfield name
Field(name) ==
    LET i == Find(name, <<PICK_SEP>>, 1)
    IN  IF i # 0
        THEN [name |-> Str(SubSeq(name, 1, i - 1)), has_subfield |-> TRUE,
              sub_name |-> Str(SubSeq(name, i + 1, Len(name)))]
        ELSE [name |-> Str(name), has_subfield |-> FALSE, sub_name |-> ""]

\* size operation modifiers; SZ_NONE stands for _size_code = None
SZ_NONE == 0

SZ_EQ == 1

SZ_GT == 2

SZ_LT == 3

SZ_VAR == 4

\* a variant of OP_NOT that mirrors the inequalities (> to <, >= to <=)
\* instead of negating them
OP_NOT_mirror == [o \in {">", ">=", "<", "<=", "=", "!=", "exists", "size", "type", "~"} |->
                    CASE o = ">"  -> "<"
                      [] o = ">=" -> "<="
                      [] o = "<"  -> ">"
                      [] o = "<=" -> ">="
                      [] o = "="  -> "!="
                      [] o = "!=" -> "="
                      [] o = "~"  -> "None"
                      [] OTHER    -> o]

\* ConstraintOperator.OP_NOT; "None" stands for the missing negation of '~'
OP_NOT == [o \in {">", ">=", "<", "<=", "=", "!=", "exists", "size", "type", "~"} |->
             CASE o = ">"  -> "<="
               [] o = ">=" -> "<"
               [] o = "<"  -> ">="
               [] o = "<=" -> ">"
               [] o = "="  -> "!="
               [] o = "!=" -> "="
               [] o = "~"  -> "None"
               [] OTHER    -> o]

VALID_OPS == DOMAIN OP_NOT \cup {"size>", "size<", "size$"}

\* ConstraintOperator._set_size_code, for a valid operator token
set_size_code(op) ==
    CASE op = "size"  -> SZ_EQ
      [] op = "size>" -> SZ_GT
      [] op = "size<" -> SZ_LT
      [] op = "size$" -> SZ_VAR
      [] OTHER        -> SZ_NONE

\* ConstraintOperator.__init__: a size operator is stripped down to its prefix
ConstraintOperator(op) ==
    IF op \notin VALID_OPS THEN Raise("ValueError", NoVal)
    ELSE Ok([op |-> IF set_size_code(op) # SZ_NONE THEN "size" ELSE op,
             size_code |-> set_size_code(op)])

is_exists(o) == o.op = "exists"

is_inequality(o) == o.op \in {">", ">=", "<", "<="}

is_equality(o) == o.op \in {"=", "!="}

is_size(o) == o.size_code # SZ_NONE

is_variable(o) == o.size_code = SZ_VAR

is_type(o) == o.op = "type"

is_regex(o) == o.op = "~"

\* ConstraintOperator.size_op: SZ_OPS[_size_code]
size_op(o) ==
    CASE o.size_code = SZ_GT -> ">"
      [] o.size_code = SZ_LT -> "<"
      [] OTHER               -> "="

\* ConstraintOperator.reverse on the operator o: the operator it becomes, or
\* BadExpression when OP_NOT gives None
reverse(o) ==
    IF OP_NOT[o.op] = "None"
    THEN Raise("BadExpression", [t |-> "str", v |-> "cannot reverse operator '" \o o.op \o "'"])
    ELSE Ok([o EXCEPT !.op = OP_NOT[o.op]])

\* the state of the operator o after o.reverse(): line 293 assigns _op before
\* line 294 looks at it
negated(o) == [o EXCEPT !.op = OP_NOT[o.op]]

\* isinstance(value, Number): bool is a subclass of int
IsNumber(value) == value.t \in {"int", "float", "bool"}

\* isinstance(value, int)
IsInt(value) == value.t \in {"int", "bool"}

\* the number an int or bool value compares as
NumVal(value) == IF value.t = "bool" THEN (IF value.v THEN 1 ELSE 0) ELSE value.v

\* Constraint.TYPE_MAPPING; "None" when the name is not a key
TYPE_MAPPING(name) ==
    CASE name \in {"number", "int", "integer", "float"} -> "Number"
      [] name \in {"str", "string"}                     -> "str"
      [] name \in {"bool", "boolean"}                   -> "bool"
      [] OTHER                                          -> "None"

\* re.compile(pattern) fails: of the patterns over the characters the inputs
\* use, those that start with a repetition or repeat a repetition
re_error(pattern) ==
    \/ pattern # <<>> /\ pattern[1] \in {"*", "+", "?"}
    \/ Find(pattern, <<"*", "*">>, 1) # 0

\* the checks of Constraint.__init__ (lines 386-401) on the field f, the
\* outcome o of making the operator, and the value
Constraint_check(f, o, value) ==
    IF o.exc # "" THEN o
    ELSE IF is_inequality(o.val) /\ ~IsNumber(value)
    THEN Raise("ValueError", NoVal)
    ELSE IF is_type(o.val)
    THEN IF value.t # "str" THEN Raise("AttributeError", NoVal)
         ELSE IF TYPE_MAPPING(Str(ToLower(value.v))) = "None"
         THEN Raise("ValueError", NoVal)
         ELSE Ok([field |-> f, op |-> o.val,
                  value |-> [t |-> "type", v |-> TYPE_MAPPING(Str(ToLower(value.v)))]])
    ELSE IF is_regex(o.val)
    THEN IF IsNumber(value) THEN Raise("ValueError", NoVal)
         ELSE IF re_error(value.v) THEN Raise("re.error", NoVal)
         ELSE Ok([field |-> f, op |-> o.val, value |-> [t |-> "regex", v |-> value.v]])
    ELSE Ok([field |-> f, op |-> o.val, value |-> value])

\* Constraint.__init__(field, operator, value), field and operator given as text
Constraint(field, operator, value) ==
    Constraint_check(Field(field), ConstraintOperator(operator), value)

----------------------------------------------------------------------------
(* MongoClause *)

LOC_MAIN == 0

LOC_WHERE == 1

LOC_MAIN2 == 2

\* MongoClause.MONGO_OPS; "None" for '='
MONGO_OPS == [o \in DOMAIN OP_NOT |->
                CASE o = ">"      -> "$gt"
                  [] o = ">="     -> "$gte"
                  [] o = "<"      -> "$lt"
                  [] o = "<="     -> "$lte"
                  [] o = "exists" -> "$exists"
                  [] o = "size"   -> "$size"
                  [] o = "type"   -> "$type"
                  [] o = "~"      -> "$regex"
                  [] o = "!="     -> "$ne"
                  [] OTHER        -> "None"]

\* MongoClause.JS_TYPES
JS_TYPES(tag) ==
    CASE tag = "Number" -> "number"
      [] tag = "str"    -> "string"
      [] tag = "bool"   -> "boolean"
      [] OTHER          -> "None"

\* MongoClause._js_op_str: JS_OPS.get(str(op), op)
js_op_str(op) == IF op = "=" THEN "==" ELSE op

\* '{}'.format(value)
Format(value) ==
    CASE value.t = "int"  -> IntStr(value.v)
      [] value.t = "bool" -> (IF value.v THEN "True" ELSE "False")
      [] value.t = "str"  -> Str(value.v)
      [] OTHER            -> value.v

\* a value as it stands in a document: a string by its text
DocVal(value) ==
    IF value.t \in {"str", "regex"} THEN [t |-> "str", v |-> Str(value.v)] ELSE value

\* the dict {key: value}
Dict1(key, value) == key :> value

\* the dict {key: {tag: value}}
Dict2(key, tag, value) == key :> [t |-> "doc", v |-> tag :> value]

\* a variant of check_size that allows no bound of 0 at all (<= for < at
\* line 640)
check_size_positive(op, value) ==
    IF ~IsInt(value) \/ NumVal(value) <= 0 THEN "ValueError" ELSE ""

\* MongoClause._check_size: the error it raises, "" when none
check_size(op, value) ==
    IF ~IsInt(value) THEN "ValueError"
    ELSE IF NumVal(value) < 0 THEN "ValueError"
    ELSE IF op.size_code = SZ_LT /\ NumVal(value) = 0 THEN "ValueError"
    ELSE ""

\* a variant of operator_after in which the operator is negated in place (no
\* copy at line 653)
operator_after_in_place(op, rev) == IF rev THEN negated(op) ELSE op

\* The state of the constraint's operator op after MongoClause(c, rev): line
\* 590 hands it to _reverse_operator only, which negates a copy (line 653),
\* and line 611 makes a new operator for the size test.
operator_after(op, rev) == op

\* MongoClause._reverse_operator: the negation is applied to a copy
reverse_operator(op) ==
    LET r == reverse(op)
    IN  IF r.exc # "" THEN r
        ELSE IF r.val.op \notin DOMAIN MONGO_OPS THEN Raise("ValueError", NoVal)
        ELSE r

\* MongoClause._create from line 591 on, ro the outcome of line 590: the
\* clause (location, expression, sense) of the constraint c, or the exception
MongoClause_create(c, ro, rev, exists_main) ==
        IF ro.exc # "" THEN ro
        ELSE
        LET op   == ro.val
            mop  == MONGO_OPS[op.op]
            name == c.field.name
            Clause(loc, expr) == Ok([loc |-> loc, expr |-> expr, rev |-> rev])
        IN  IF is_exists(op)
            THEN IF c.value.t # "bool" THEN Raise("AssertionError", NoVal)
                 ELSE Clause(IF exists_main THEN LOC_MAIN2 ELSE LOC_MAIN,
                             Dict2(name, mop, [t |-> "bool",
                                               v |-> IF rev THEN ~c.value.v ELSE c.value.v]))
            ELSE IF is_size(op)
            THEN IF is_variable(op)
                 THEN Clause(LOC_WHERE,
                             "this." \o name \o ".length " \o (IF rev THEN "!=" ELSE "==")
                             \o " this." \o Format(c.value))
                 ELSE IF op.size_code = SZ_EQ /\ ~rev
                 THEN Clause(LOC_MAIN, Dict2(name, "$size", DocVal(c.value)))
                 ELSE IF check_size(op, c.value) # ""
                 THEN Raise(check_size(op, c.value), NoVal)
                 ELSE LET szop == ConstraintOperator(size_op(op)).val
                          js   == js_op_str(IF rev THEN reverse(szop).val.op ELSE szop.op)
                      IN  Clause(LOC_WHERE,
                                 "this." \o name \o ".length " \o js \o " " \o Format(c.value))
            ELSE IF is_type(op)
            THEN IF JS_TYPES(c.value.v) = "None" THEN Raise("RuntimeError", NoVal)
                 ELSE Clause(LOC_WHERE,
                             "typeof this." \o name \o " " \o (IF rev THEN "!=" ELSE "==")
                             \o " \"" \o JS_TYPES(c.value.v) \o "\"")
            ELSE IF is_regex(op)
            THEN Clause(LOC_MAIN, Dict2(name, mop, DocVal(c.value)))
            ELSE IF mop = "None"
            THEN Clause(LOC_MAIN, Dict1(name, DocVal(c.value)))
            ELSE IF c.value.t = "bool"
            THEN Clause(LOC_MAIN,
                        Dict1(name, [t |-> "bool", v |-> IF rev THEN ~c.value.v ELSE c.value.v]))
            ELSE Clause(LOC_MAIN, Dict2(name, mop, DocVal(c.value)))

\* a variant of MongoClause that reverses the operator of exists only and
\* keeps its value
MongoClause_keep(c, rev, exists_main) ==
    IF is_exists(c.op) /\ c.value.t = "bool"
    THEN Ok([loc |-> IF exists_main THEN LOC_MAIN2 ELSE LOC_MAIN,
             expr |-> Dict2(c.field.name, "$exists", c.value), rev |-> rev])
    ELSE MongoClause_create(c, IF rev THEN reverse_operator(c.op) ELSE Ok(c.op),
                            rev, exists_main)

\* MongoClause.__init__(constraint, rev, exists_main)
MongoClause(c, rev, exists_main) ==
    MongoClause_create(c, IF rev THEN reverse_operator(c.op) ELSE Ok(c.op), rev, exists_main)

----------------------------------------------------------------------------
(* MongoQuery *)

\* MongoQuery.__init__
NewQuery == [main |-> <<>>, main2 |-> <<>>, where |-> <<>>]

\* MongoQuery.add_clause
add_clause(mq, clause) ==
    CASE clause.loc = LOC_MAIN  -> [mq EXCEPT !.main = Append(@, clause)]
      [] clause.loc = LOC_MAIN2 -> [mq EXCEPT !.main2 = Append(@, clause)]
      [] OTHER                  -> [mq EXCEPT !.where = Append(@, clause)]

\* dict.update: the keys of d are set in q
Update(q, d) == d @@ q

\* q.update(c) for each c of cs in turn
RECURSIVE UpdateAll(_, _)
UpdateAll(q, cs) == IF cs = <<>> THEN q ELSE UpdateAll(Update(q, Head(cs)), Tail(cs))

\* sep.join(strs)
RECURSIVE Join(_, _)
Join(strs, sep) ==
    IF strs = <<>> THEN ""
    ELSE IF Len(strs) = 1 THEN strs[1]
    ELSE strs[1] \o sep \o Join(Tail(strs), sep)

\* the main2 clauses are added to what q holds for their field
RECURSIVE MergeMain2(_, _)
MergeMain2(q, cs) ==
    IF cs = <<>> THEN Ok(q)
    ELSE LET c     == Head(cs)
             field == CHOOSE f \in DOMAIN c : TRUE
         IN  IF field \notin DOMAIN q THEN MergeMain2(Update(q, c), Tail(cs))
             ELSE IF q[field].t # "doc" THEN Raise("AttributeError", NoVal)
             ELSE MergeMain2([q EXCEPT ![field] = [t |-> "doc", v |-> c[field].v @@ @.v]],
                             Tail(cs))

\* the expressions of a list of clauses
Exprs(cs) == [i \in 1..Len(cs) |-> cs[i].expr]

\* lines 706-718: the main clauses are added to the empty q
main_clauses(clauses, n_where, disjunction) ==
    IF clauses = <<>> THEN <<>>
    ELSE IF disjunction
    THEN (IF Len(clauses) + n_where > 1
          THEN "$or" :> [t |-> "list", v |-> clauses]
          ELSE clauses[1])
    ELSE UpdateAll(<<>>, clauses)

\* a variant of where_clauses that makes no $or list: without one in q the
\* text goes to the top level
where_clauses_no_list(q, where_clause, disjunction) ==
    IF disjunction /\ "$or" \in DOMAIN q
    THEN ("$or" :> [t |-> "list",
                    v |-> q["$or"].v \o <<"$where" :> [t |-> "str", v |-> where_clause]>>]) @@ q
    ELSE Update(q, "$where" :> [t |-> "str", v |-> where_clause])

\* lines 728-736: the where clauses are added to q, where_clause their
\* joined text
where_clauses(q, where_clause, disjunction) ==
    IF disjunction
    THEN ("$or" :> [t |-> "list",
                    v |-> (IF "$or" \in DOMAIN q THEN q["$or"].v ELSE <<>>)
                          \o <<"$where" :> [t |-> "str", v |-> where_clause]>>]) @@ q
    ELSE Update(q, "$where" :> [t |-> "str", v |-> where_clause])

\* a variant of add_where that joins the where clauses with " || " whatever
\* their sense
add_where_or(mq, m2, disjunction) ==
    IF m2.exc # "" \/ mq.where = <<>> THEN m2
    ELSE Ok(where_clauses(m2.val, Join(Exprs(mq.where), " || "), disjunction))

\* lines 727-737, m2 the outcome of adding the main and main2 clauses
add_where(mq, m2, disjunction) ==
    IF m2.exc # "" \/ mq.where = <<>> THEN m2
    ELSE Ok(where_clauses(m2.val,
                          Join(Exprs(mq.where), IF mq.where[1].rev THEN " || " ELSE " && "),
                          disjunction))

\* MongoQuery.to_mongo(disjunction)
MongoQuery_to_mongo(mq, disjunction) ==
    add_where(mq,
              MergeMain2(main_clauses(Exprs(mq.main), Len(mq.where), disjunction),
                         Exprs(mq.main2)),
              disjunction)

----------------------------------------------------------------------------
(* to_mongo *)

\* The arguments of to_mongo: a str (its characters), a list (its elements),
\* and, as elements that are no strings, an int and a bytes object.
PyStr(cs) == [kind |-> "str", v |-> cs]

PyList(xs) == [kind |-> "list", v |-> xs]

PyInt == [kind |-> "int", v |-> <<>>]

PyBytes(cs) == [kind |-> "bytes", v |-> cs]

\* the groups of filters to_mongo breaks its input into (lines 93-104)
Groups(q) ==
    IF q.kind = "str"
    THEN IF Find(q.v, TOK_OR, 1) # 0
         THEN LET gs == Split(q.v, TOK_OR)
              IN  [i \in 1..Len(gs) |->
                     LET es == Split(unpar(gs[i]), TOK_AND)
                     IN  PyList([j \in 1..Len(es) |-> PyStr(es[j])])]
         ELSE LET es == Split(unpar(q.v), TOK_AND)
              IN  <<PyList([j \in 1..Len(es) |-> PyStr(es[j])])>>
    ELSE IF q.v[1].kind = "list" THEN q.v
    ELSE <<q>>

\* what iterating over a group yields, or the TypeError of iterating an int
Items(g) ==
    CASE g.kind = "list"  -> Ok(g.v)
      [] g.kind = "str"   -> Ok([i \in 1..Len(g.v) |-> PyStr(<<g.v[i]>>)])
      [] g.kind = "bytes" -> Ok([i \in 1..Len(g.v) |-> PyInt])
      [] OTHER            -> Raise("TypeError", NoVal)

\* line 118: the clause of the constraint made at line 115 with outcome c; a
\* ValueError of line 115 is raised again as BadExpression(e)
make_clause(e, c, rev) ==
    IF c.exc = "ValueError" THEN Raise("BadExpression", [t |-> "str", v |-> Str(e)])
    ELSE IF c.exc # "" THEN c
    ELSE MongoClause(c.val, rev, FALSE)

\* lines 114-118 for the stripped text e, pr the outcome of parse_expr(e)
make_constraint(e, pr, rev) ==
    IF pr.exc # "" THEN Raise("BadExpression", [t |-> "str", v |-> Str(e)])
    ELSE make_clause(e, Constraint(pr.val.field, pr.val.op, pr.val.val), rev)

\* lines 114-118 for the stripped text e
compile_text(e, rev) == make_constraint(e, parse_expr(e), rev)

\* the body of the inner loop (lines 110-118): the clause of the element e.
\* A bytes element has strip(), which rejects the str argument '()'; any
\* other element that is no string has no strip().
CompileExpr(e, rev) ==
    IF e.kind = "bytes" THEN Raise("TypeError", NoVal)
    ELSE IF e.kind # "str" THEN Raise("BadExpression", [t |-> "obj", v |-> e.kind])
    ELSE compile_text(unpar(e.v), rev)

\* the inner loop over the elements of one group, from element i on
RECURSIVE GroupClauses(_, _, _, _)

\* line 119, cl the outcome of lines 110-118 for element i
next_clause(es, i, mq, rev, cl) ==
    IF cl.exc # "" THEN cl
    ELSE GroupClauses(es, i + 1, add_clause(mq, cl.val), rev)

GroupClauses(es, i, mq, rev) ==
    IF i > Len(es) THEN Ok(mq)
    ELSE next_clause(es, i, mq, rev, CompileExpr(es[i], rev))

\* line 120, mq the outcome of the inner loop: the filter of the group
group_filter(mq, rev) ==
    IF mq.exc # "" THEN mq ELSE MongoQuery_to_mongo(mq.val, rev)

\* lines 108-120 for one group, es the outcome of iterating over it
filter_of(es, rev) ==
    IF es.exc # "" THEN es
    ELSE group_filter(GroupClauses(es.val, 1, NewQuery, rev), rev)

\* the outer loop (lines 106-120), from group i on: the list of filters
RECURSIVE Filters(_, _, _, _)

next_filter(groups, i, filters, rev, f) ==
    IF f.exc # "" THEN f
    ELSE Filters(groups, i + 1, Append(filters, f.val), rev)

Filters(groups, i, filters, rev) ==
    IF i > Len(groups) THEN Ok(filters)
    ELSE next_filter(groups, i, filters, rev, filter_of(Items(groups[i]), rev))

\* a variant of combine that wraps a single filter too (>= for > at line 122)
combine_always(fs) ==
    IF fs.exc # "" THEN fs
    ELSE Ok("$or" :> [t |-> "list", v |-> fs.val])

\* lines 122-126: the filters are combined, or the one filter returned
combine(fs) ==
    IF fs.exc # "" THEN fs
    ELSE IF Len(fs.val) > 1
    THEN Ok("$or" :> [t |-> "list", v |-> fs.val])
    ELSE Ok(fs.val[1])

\* The argument q after to_mongo(q): groups is the argument itself or a new
\* list (lines 94-104), the loops only read it, and line 111 binds the
\* stripped text to the local e.
qry_after(q) == q

\* to_mongo(qry): the document returned or the exception raised
to_mongo(q) ==
    IF q.v = <<>> THEN Ok(<<>>)
    ELSE combine(Filters(Groups(q), 1, <<>>, FALSE))

----------------------------------------------------------------------------
(* The inputs of the calls *)

\* bounds of the inputs: constraints in one AND-group, OR-groups, and
\* parentheses put before and after a group of the string form
MaxExprs == 2

MaxGroups == 2

MaxParens == 1

\* a constraint "field operator value" by its three texts
Atom(f, o, v) == [f |-> f, o |-> o, v |-> v]

AtomText(a) == a.f \o <<" ">> \o a.o \o <<" ">> \o a.v

FieldTexts == {<<"a">>, <<"c">>, <<"c", "/", "d">>}

\* the operator tokens of the grammar and one that is none ("<>")
OpTexts == {<<"<", "=">>, <<"<">>, <<">", "=">>, <<">">>,
            <<"!", "=">>, <<"=">>, <<"e", "x", "i", "s", "t", "s">>, <<"~">>,
            <<"t", "y", "p", "e">>, <<"s", "i", "z", "e", ">">>, <<"s", "i", "z", "e", "<">>, <<"s", "i", "z", "e", "$">>,
            <<"s", "i", "z", "e">>, <<"<", ">">>}

ValueTexts == {<<"3">>, <<"0">>, <<"-", "1">>,
               <<"2", ".", "5">>, <<"t", "r", "u", "e">>, <<"F", "a", "l", "s", "e">>,
               <<"'", "h", "i", "'">>, <<"'", "x", " ", "a", "n", "d", " ", "y", "'">>, <<"i", "n", "t">>,
               <<"S", "t", "r", "i", "n", "g">>, <<"f", "o", "o">>, <<"i", "n", "f">>,
               <<"'", "*", "'">>, <<"1">>, <<"1", "2">>}

\* the other names of TYPE_MAPPING, and one in capitals
TypeTexts == {<<"n", "u", "m", "b", "e", "r">>, <<"i", "n", "t", "e", "g", "e", "r">>, <<"f", "l", "o", "a", "t">>, <<"s", "t", "r">>, <<"b", "o", "o", "l">>, <<"b", "o", "o", "l", "e", "a", "n">>, <<"B", "O", "O", "L">>}

\* every single constraint over the texts above
AllAtoms ==
    {Atom(f, o, v) : f \in FieldTexts, o \in OpTexts, v \in ValueTexts}
    \cup {Atom(f, <<"t", "y", "p", "e">>, v) : f \in FieldTexts, v \in TypeTexts}

\* the constraints AND-groups of several constraints are made of
GroupAtoms == {Atom(<<"a">>, <<">">>, <<"3">>),
               Atom(<<"c">>, <<"=">>, <<"'", "h", "i", "'">>),
               Atom(<<"c", "/", "d">>, <<"!", "=">>, <<"2", ".", "5">>),
               Atom(<<"a">>, <<"<", "=">>, <<"-", "1">>),
               Atom(<<"a">>, <<"t", "y", "p", "e">>, <<"i", "n", "t">>),
               Atom(<<"c">>, <<"s", "i", "z", "e", ">">>, <<"3">>),
               Atom(<<"c", "/", "d">>, <<"s", "i", "z", "e", "$">>, <<"a">>),
               Atom(<<"c">>, <<"e", "x", "i", "s", "t", "s">>, <<"t", "r", "u", "e">>)}

\* the groups inputs of several OR-groups are made of
GroupPool == {<<Atom(<<"a">>, <<">">>, <<"3">>), Atom(<<"c">>, <<"=">>, <<"'", "h", "i", "'">>)>>,
              <<Atom(<<"c">>, <<"t", "y", "p", "e">>, <<"i", "n", "t">>)>>,
              <<Atom(<<"a">>, <<"<", ">">>, <<"3">>)>>,
              <<Atom(<<"c", "/", "d">>, <<"s", "i", "z", "e", "<">>, <<"3">>), Atom(<<"a">>, <<"!", "=">>, <<"2", ".", "5">>)>>}

\* the sequences of lo..hi elements of S
SeqsOf(S, lo, hi) == UNION {[1..n -> S] : n \in lo..hi}

\* what an input is made of: each single constraint, the AND-groups of up to
\* MaxExprs constraints, and up to MaxGroups OR-groups
GroupSeqs ==
    {<<(<<a>>)>> : a \in AllAtoms}
    \cup {<<g>> : g \in SeqsOf(GroupAtoms, 2, MaxExprs)}
    \cup SeqsOf(GroupPool, 2, MaxGroups)

\* valid constraints that further text is written after
TailAtoms == {Atom(<<"a">>, <<"=">>, <<"3">>),
              Atom(<<"a">>, <<">">>, <<"1", "2">>),
              Atom(<<"c">>, <<"!", "=">>, <<"2", ".", "5">>),
              Atom(<<"c">>, <<"=">>, <<"'", "h", "i", "'">>),
              Atom(<<"c">>, <<"s", "i", "z", "e", ">">>, <<"3">>),
              Atom(<<"a">>, <<"e", "x", "i", "s", "t", "s">>, <<"t", "r", "u", "e">>),
              Atom(<<"c">>, <<"t", "y", "p", "e">>, <<"i", "n", "t">>)}

\* the text after a constraint: a second value, words, another operator
TailTexts == {<<" ", "4">>, <<" ", "x", " ", "y">>, <<" ", "=", " ", "3">>,
              <<" ", "'", "h", "i", "'">>, <<" ", ")", " ", "x">>}

\* characters directly after a numeric value
DigitTails == {<<"a", "b", "c">>, <<"x">>, <<"_">>}

\* The forms of an input: "lists" a list of lists of strings, "list" a flat
\* list of strings (one group), "str" one string, each group between pre
\* opening and post closing parentheses, "tail" the string of one constraint
\* with the text tail after it.
Sources ==
    {[form |-> "lists", groups |-> gs, pre |-> 0, post |-> 0, tail |-> <<>>] : gs \in GroupSeqs}
    \cup {[form |-> "list", groups |-> gs, pre |-> 0, post |-> 0, tail |-> <<>>] :
            gs \in {g \in GroupSeqs : Len(g) = 1}}
    \cup {[form |-> "str", groups |-> gs, pre |-> k, post |-> k, tail |-> <<>>] :
            gs \in GroupSeqs, k \in 0..MaxParens}
    \cup {[form |-> "tail", groups |-> <<(<<a>>)>>, pre |-> 0, post |-> 0, tail |-> t] :
            a \in TailAtoms, t \in TailTexts}
    \cup {[form |-> "tail", groups |-> <<(<<a>>)>>, pre |-> 0, post |-> 0, tail |-> t] :
            a \in {b \in TailAtoms : IsIntText(b.v) \/ IsFloatText(b.v)}, t \in DigitTails}

\* n times the character c
Rep(c, n) == [i \in 1..n |-> c]

\* the texts of ts with sep between them
RECURSIVE JoinText(_, _)
JoinText(ts, sep) ==
    IF ts = <<>> THEN <<>>
    ELSE IF Len(ts) = 1 THEN ts[1]
    ELSE ts[1] \o sep \o JoinText(Tail(ts), sep)

\* the string form of groups: constraints joined with " and ", groups with
\* " or ", each group between pre "(" and post ")"
StringForm(gs, pre, post) ==
    JoinText([i \in 1..Len(gs) |->
                Rep("(", pre)
                \o JoinText([j \in 1..Len(gs[i]) |-> AtomText(gs[i][j])], TOK_AND)
                \o Rep(")", post)],
             TOK_OR)

\* the list of the constraint strings of one group
ListForm(g) == PyList([j \in 1..Len(g) |-> PyStr(AtomText(g[j]))])

\* the list-of-lists form of groups
ListsForm(gs) == PyList([i \in 1..Len(gs) |-> ListForm(gs[i])])

\* the argument a source stands for
QryOf(s) ==
    CASE s.form = "lists" -> ListsForm(s.groups)
      [] s.form = "list"  -> ListForm(s.groups[1])
      [] s.form = "tail"  -> PyStr(AtomText(s.groups[1][1]) \o s.tail)
      [] OTHER            -> PyStr(StringForm(s.groups, s.pre, s.post))

\* Arguments that are not made of constraints: the empty ones, elements that
\* are no strings, and the texts of the tests.
Specials == <<
    PyStr(<<>>),
    PyList(<<>>),
    PyList(<<PyList(<<>>)>>),
    PyList(<<PyList(<<>>), PyList(<<>>)>>),
    PyList(<<PyInt>>),
    PyList(<<PyStr(<<"a", " ", "=", " ", "3">>), PyInt>>),
    PyList(<<PyList(<<PyStr(<<"a", " ", "=", " ", "3">>)>>), PyList(<<PyInt>>)>>),
    PyList(<<PyStr(<<"a", " ", "=", " ", "3">>), PyList(<<PyStr(<<"a", " ", "=", " ", "3">>)>>)>>),
    PyList(<<PyBytes(<<"a", " ", "=", " ", "3">>)>>),
    PyStr(<<"a", " ", "<", ">", "2">>),
    PyStr(<<"(", " ", "a", " ", "<", ">", "2", " ", ")">>),
    PyList(<<PyStr(<<"(", " ", "a", " ", "<", ">", "2", " ", ")">>)>>),
    PyStr(<<"a", "b", "b", "a", " ", ">", " ", "1", "2", " ", "a", "n", "d", " ", "b", "e", "e", "b", "s", " ", "<", "=", " ", "3", " ", "o", "r", " ", "c", "o", "c", "o", " ", "t", "y", "p", "e", " ", "i", "n", "t">>),
    PyStr(<<"a", "b", "b", "a", " ", ">", " ", "1", "2", " ", "a", "n", "d", " ", "b", "e", "e", "b", "s", " ", "<", "=", " ", "3", " ", "o", "r", " ", "c", "o", "c", "o", " ", "t", "y", "p", "e", " ", "i", "n", "t", " ", "o", "r", " ", "a", "b", "b", "a", " ", "=", " ", "\"", "f", "o", "o", "\"", " ", "a", "n", "d", " ", "b", "e", "e", "b", "s", " ", "e", "x", "i", "s", "t", "s", " ", "f", "a", "l", "s", "e">>),
    PyStr(<<"(", "a", " ", ">", " ", "3", " ", "a", "n", "d", " ", "b", " ", "=", " ", "\"", "h", "e", "l", "l", "o", "\"", ")", " ", "o", "r", " ", "(", "c", " ", ">", " ", "1", " ", "a", "n", "d", " ", "d", " ", "=", " ", "\"", "g", "o", "o", "d", "b", "y", "e", "\"", ")">>) >>

SpecialSrc == [form |-> "special", groups |-> <<>>, pre |-> 0, post |-> 0, tail |-> <<>>]

----------------------------------------------------------------------------
(* The calls *)

NoOut == Raise("pending", NoVal)

Init ==
    /\ \/ src \in Sources /\ qry = QryOf(src)
       \/ src = SpecialSrc /\ \E i \in 1..Len(Specials) : qry = Specials[i]
    /\ pc = "call"
    /\ out = NoOut

\* to_mongo(qry) runs: it returns a document or raises
Call ==
    /\ pc = "call"
    /\ out' = to_mongo(qry)
    /\ pc' = "done"
    /\ UNCHANGED <<src, qry>>

Next == Call

Spec == Init /\ [][Next]_vars

----------------------------------------------------------------------------
(* One Constraint object: clauses are made from it, its operator is negated
   in place, and its text is compiled by to_mongo.  src is the text of the
   constraint, qry the objects (con the Constraint, arg the list given to
   to_mongo), pc the number of calls made and out the log of the calls: for
   each the objects before and after it and its outcome. *)

MaxCalls == 3

ClauseFields == {<<"a">>, <<"c", "/", "d">>}

ClauseValues == {<<"3">>, <<"-", "1">>, <<"2", ".", "5">>, <<"t", "r", "u", "e">>,
                 <<"F", "a", "l", "s", "e">>, <<"'", "h", "i", "'">>, <<"i", "n", "t">>}

\* the constraints Constraint.__init__ accepts
ClauseAtoms ==
    {a \in {Atom(f, o, v) : f \in ClauseFields, o \in OpTexts, v \in ClauseValues} :
        Constraint(a.f, Str(a.o), ValueOf(a.v)).exc = ""}

InitObj ==
    /\ src \in ClauseAtoms
    /\ qry = [con |-> Constraint(src.f, Str(src.o), ValueOf(src.v)).val,
              arg |-> ListsForm(<<(<<src>>)>>)]
    /\ pc = 0
    /\ out = <<>>

\* the entry of the log for a call that takes qry to qry'
Entry(call, rev, exists_main, res) ==
    [call |-> call, rev |-> rev, exists_main |-> exists_main,
     before |-> qry, after |-> qry', res |-> res]

\* an operator a failed reverse() has left without a token is not used again
Usable == pc < MaxCalls /\ qry.con.op.op # "None"

\* con.op.reverse()
Negate ==
    /\ Usable
    /\ qry' = [qry EXCEPT !.con.op = negated(@)]
    /\ out' = Append(out, Entry("reverse", FALSE, FALSE, reverse(qry.con.op)))
    /\ pc' = pc + 1
    /\ UNCHANGED src

\* MongoClause(con, rev, exists_main)
NewClause ==
    /\ Usable
    /\ \E rev, exists_main \in BOOLEAN :
          /\ qry' = [qry EXCEPT !.con.op = operator_after(@, rev)]
          /\ out' = Append(out, Entry("clause", rev, exists_main,
                                      MongoClause(qry.con, rev, exists_main)))
    /\ pc' = pc + 1
    /\ UNCHANGED src

\* to_mongo(arg)
Compile ==
    /\ Usable
    /\ qry' = [qry EXCEPT !.arg = qry_after(@)]
    /\ out' = Append(out, Entry("to_mongo", FALSE, FALSE, to_mongo(qry.arg)))
    /\ pc' = pc + 1
    /\ UNCHANGED src

NextObj == Negate \/ NewClause \/ Compile

SpecObj == InitObj /\ [][NextObj]_vars

----------------------------------------------------------------------------
(* ConstraintGroup: the constraints on one field *)

\* ConstraintGroup.__init__
ConstraintGroup(field) ==
    [constraints |-> <<>>, existence_constraints |-> <<>>,
     array |-> FALSE, range |-> FALSE, field |-> field]

\* lines 462-467: the constraint is appended and the flags are set
append_constraint(g, op, c) ==
    IF c.exc # "" THEN Raise(c.exc, g)
    ELSE Ok([g EXCEPT !.constraints = Append(@, c.val),
                      !.array = IF g.field.has_subfield THEN TRUE ELSE @,
                      !.range = IF ~g.field.has_subfield /\ is_inequality(op)
                                THEN TRUE ELSE @])

\* ConstraintGroup.add_constraint(op, val), op a ConstraintOperator: the group
\* after the call, the group as it was when the call raises
add_constraint(g, op, val) ==
    IF g.constraints # <<>> /\ (is_equality(op) \/ is_exists(op))
    THEN Raise("ValueError", g)
    ELSE append_constraint(g, op, Constraint_check(g.field, Ok(op), val))

has_array(g) == g.array

\* ConstraintGroup.get_conflicts
get_conflicts(g) ==
    IF g.array /\ g.range
    THEN <<"cannot use range expressions on arrays">>
    ELSE <<>>

\* ConstraintGroup.add_existence(rev)
add_existence(g, rev) ==
    IF Len(g.constraints) = 1 /\ (is_exists(g.constraints[1].op)
                                  \/ is_equality(g.constraints[1].op))
    THEN g
    ELSE [g EXCEPT !.existence_constraints =
            Append(@, Constraint_check(g.field, ConstraintOperator("exists"),
                                       [t |-> "bool", v |-> ~rev]).val)]

----------------------------------------------------------------------------
(* One ConstraintGroup object: constraints are added to it.  src is the text
   of its field, qry the group, pc the number of calls made, out the
   exception of the last call ("" for none) and what get_conflicts returns
   after it. *)

MaxAdds == 3

GroupFields == {<<"a">>, <<"c", "/", "d">>}

GroupOps == {ConstraintOperator(o).val : o \in VALID_OPS}

GroupValues == {<<"3">>, <<"'", "h", "i", "'">>, <<"i", "n", "t">>}

InitGroup ==
    /\ src \in GroupFields
    /\ qry = ConstraintGroup(Field(src))
    /\ pc = 0
    /\ out = [exc |-> "", conflicts |-> <<>>]

\* group.add_constraint(op, val), then group.get_conflicts()
AddConstraint ==
    /\ pc < MaxAdds
    /\ \E op \in GroupOps, val \in GroupValues :
          /\ qry' = add_constraint(qry, op, ValueOf(val)).val
          /\ out' = [exc |-> add_constraint(qry, op, ValueOf(val)).exc,
                     conflicts |-> get_conflicts(qry')]
    /\ pc' = pc + 1
    /\ UNCHANGED src

\* group.add_existence(rev), then group.get_conflicts()
AddExistence ==
    /\ pc < MaxAdds
    /\ \E rev \in BOOLEAN : qry' = add_existence(qry, rev)
    /\ out' = [exc |-> "", conflicts |-> get_conflicts(qry')]
    /\ pc' = pc + 1
    /\ UNCHANGED src

NextGroup == AddConstraint \/ AddExistence

SpecGroup == InitGroup /\ [][NextGroup]_vars

----------------------------------------------------------------------------
(* One MongoQuery object: clauses of one sense are added to it and it is
   turned into a document.  src is the sense of the clauses, qry the
   MongoQuery, pc "build" until to_mongo has been called, out the flag and
   the outcome of that call. *)

MaxClauses == 3

QueryAtoms == {Atom(<<"a">>, <<">">>, <<"3">>),
               Atom(<<"c">>, <<"=">>, <<"'", "h", "i", "'">>),
               Atom(<<"a">>, <<"!", "=">>, <<"2", ".", "5">>),
               Atom(<<"c">>, <<"t", "y", "p", "e">>, <<"i", "n", "t">>),
               Atom(<<"a">>, <<"s", "i", "z", "e", ">">>, <<"3">>),
               Atom(<<"a">>, <<"e", "x", "i", "s", "t", "s">>, <<"t", "r", "u", "e">>),
               Atom(<<"c">>, <<"e", "x", "i", "s", "t", "s">>, <<"F", "a", "l", "s", "e">>)}

\* exists_main makes a difference for exists only
MainFlags(a) == IF a.o = <<"e", "x", "i", "s", "t", "s">> THEN BOOLEAN ELSE {FALSE}

\* the clause of the constraint a
ClauseOf(a, rev, exists_main) ==
    MongoClause(Constraint(a.f, Str(a.o), ValueOf(a.v)).val, rev, exists_main)

NoCall == [disjunction |-> FALSE, res |-> NoOut]

InitQuery ==
    /\ src \in [rev : BOOLEAN]
    /\ qry = NewQuery
    /\ pc = "build"
    /\ out = NoCall

\* mq.add_clause(MongoClause(constraint, rev, exists_main))
AddClause ==
    /\ pc = "build"
    /\ Len(qry.main) + Len(qry.main2) + Len(qry.where) < MaxClauses
    /\ \E a \in QueryAtoms : \E exists_main \in MainFlags(a) :
          /\ ClauseOf(a, src.rev, exists_main).exc = ""
          /\ qry' = add_clause(qry, ClauseOf(a, src.rev, exists_main).val)
    /\ UNCHANGED <<src, pc, out>>

\* mq.to_mongo(disjunction)
ToMongo ==
    /\ pc = "build"
    /\ \E disjunction \in BOOLEAN :
          out' = [disjunction |-> disjunction, res |-> MongoQuery_to_mongo(qry, disjunction)]
    /\ pc' = "done"
    /\ UNCHANGED <<src, qry>>

NextQuery == AddClause \/ ToMongo

SpecQuery == InitQuery /\ [][NextQuery]_vars

----------------------------------------------------------------------------
(* What the inputs of a state are made of *)

Done == pc = "done"

\* the input is made of constraint texts
FromConstraints == src.form \in {"lists", "list", "str"}

OneGroup == FromConstraints /\ Len(src.groups) = 1

OneAtom == OneGroup /\ Len(src.groups[1]) = 1

\* the constraint of a state of one constraint
TheAtom == src.groups[1][1]

HasPick(f) == Find(f, <<PICK_SEP>>, 1) # 0

\* the outcome of to_mongo for the group g alone, as a list of lists
GroupAlone(g) == to_mongo(ListsForm(<<g>>))

AtomAlone(a) == GroupAlone(<<a>>)

\* the document MongoQuery builds for the constraints of g
GroupDoc(g) == filter_of(Items(ListForm(g)), FALSE)

\* the text t between two spaces holds neither " and " nor " or "
SplitSafe(t) ==
    /\ Find(<<" ">> \o t \o <<" ">>, TOK_AND, 1) = 0
    /\ Find(<<" ">> \o t \o <<" ">>, TOK_OR, 1) = 0

AllSplitSafe(gs) ==
    \A i \in 1..Len(gs) : \A j \in 1..Len(gs[i]) : SplitSafe(AtomText(gs[i][j]))

----------------------------------------------------------------------------
(* C1 *)

CompareOps == {<<"=">>, <<"!", "=">>, <<">">>, <<">", "=">>, <<"<">>, <<"<", "=">>}

OpTag(o) ==
    CASE o = <<"!", "=">> -> "$ne"
      [] o = <<">">>      -> "$gt"
      [] o = <<">", "=">> -> "$gte"
      [] o = <<"<">>      -> "$lt"
      [] OTHER            -> "$lte"

\* what the field of the constraint a maps to by the table of operator tags
Mapped(a) ==
    IF a.o = <<"=">> THEN DocVal(ValueOf(a.v))
    ELSE [t |-> "doc", v |-> OpTag(a.o) :> DocVal(ValueOf(a.v))]

\* valid comparisons of pairwise distinct fields with numbers or quoted strings
Comparisons(g) ==
    /\ \A j \in 1..Len(g) :
          /\ g[j].o \in CompareOps
          /\ IsIntText(g[j].v) \/ IsFloatText(g[j].v) \/ IsQuoted(g[j].v)
          /\ AtomAlone(g[j]).exc = ""
    /\ \A j, k \in 1..Len(g) : j # k => g[j].f # g[k].f

\* C1: for an AND-group of valid comparisons (=, !=, >, >=, <, <=) of pairwise
\* distinct fields with numbers or quoted strings, to_mongo returns a document
\* of exactly one key per constraint, in which the field maps to the bare
\* value for = and to {tag: value} for the other operators, the tag being
\* $ne, $gt, $gte, $lt, $lte.
C1_OneKeyPerConstraint ==
    (Done /\ OneGroup /\ src.form \in {"lists", "list"} /\ Comparisons(src.groups[1])) =>
        /\ out.exc = ""
        /\ Cardinality(DOMAIN out.val) = Len(src.groups[1])
        /\ \A j \in 1..Len(src.groups[1]) :
              ~HasPick(src.groups[1][j].f) =>
                  /\ Str(src.groups[1][j].f) \in DOMAIN out.val
                  /\ out.val[Str(src.groups[1][j].f)] = Mapped(src.groups[1][j])

----------------------------------------------------------------------------
(* C2 *)

GroupsOk(gs) == \A i \in 1..Len(gs) : GroupDoc(gs[i]).exc = ""

\* C2: the empty string and the empty list give the empty document; one
\* AND-group gives the document of that group, without a top-level $or key;
\* two or more OR-groups give exactly {$or: [d1, ..., dn]}, di the document
\* of the i-th group, in the order of the input.
C2_TopLevelShape ==
    Done =>
        /\ (qry = PyStr(<<>>) \/ qry = PyList(<<>>)) => out = Ok(<<>>)
        /\ (OneGroup /\ out.exc = "") => "$or" \notin DOMAIN out.val
        /\ (OneGroup /\ src.form \in {"lists", "list"}) => out = GroupDoc(src.groups[1])
        /\ (/\ FromConstraints
            /\ Len(src.groups) >= 2
            /\ GroupsOk(src.groups)
            /\ src.form = "str" => AllSplitSafe(src.groups)) =>
               out = Ok("$or" :> [t |-> "list",
                                  v |-> [i \in 1..Len(src.groups) |-> GroupDoc(src.groups[i]).val]])

\* to_mongo returned {$or: [d1, d2]} for two groups
C2_Witness ==
    /\ Done
    /\ FromConstraints
    /\ Len(src.groups) = 2
    /\ out.exc = ""
    /\ DOMAIN out.val = {"$or"}
    /\ Len(out.val["$or"].v) = 2

----------------------------------------------------------------------------
(* C3 *)

\* the outcomes for the other forms of the groups gs are all o: the string
\* with k parentheses before and l after each group, and for one group the
\* flat list
SameInAllForms(gs, o) ==
    /\ \A k, l \in 0..MaxParens : to_mongo(PyStr(StringForm(gs, k, l))) = o
    /\ Len(gs) = 1 => to_mongo(ListForm(gs[1])) = o

\* C3 as stated: for every non-empty sequence of AND-groups of valid
\* constraints, to_mongo returns the same document for the list of lists, for
\* the string joined with " and " and " or ", for that string with
\* parentheses added at the start or end of each group and, for one group,
\* for the flat list.
C3_FormIndependent ==
    (Done /\ src.form = "lists" /\ out.exc = "") => SameInAllForms(src.groups, out)

\* C3: the same, for constraints whose text, put between two spaces, holds
\* neither " and " nor " or ".
C3_FormIndependentSplitSafe ==
    (Done /\ src.form = "lists" /\ out.exc = "" /\ AllSplitSafe(src.groups)) =>
        SameInAllForms(src.groups, out)

\* a list of two groups, one of them of two constraints, was compiled
C3_Witness ==
    /\ Done
    /\ src.form = "lists"
    /\ Len(src.groups) = 2
    /\ Len(src.groups[1]) = 2
    /\ AllSplitSafe(src.groups)
    /\ out.exc = ""

----------------------------------------------------------------------------
(* C4 *)

\* the elements of the groups gs, in order
RECURSIVE Flatten(_)
Flatten(gs) == IF gs = <<>> THEN <<>> ELSE Head(gs).v \o Flatten(Tail(gs))

\* the element e is no string, or a string relation_re does not match
Offends(e) == e.kind # "str" \/ ~relation_re_match(unpar(e.v)).ok

\* C4: when an element of a group is a string that does not match the
\* grammar, whatever valid constraints precede it and whatever follows it,
\* to_mongo raises BadExpression with that string, stripped of surrounding
\* whitespace and parentheses, as expr; when it is no string, to_mongo
\* raises BadExpression.
C4_BadExpressionForOffender ==
    (Done /\ qry.v # <<>> /\ \A i \in 1..Len(Groups(qry)) : Groups(qry)[i].kind = "list") =>
        \A k \in 1..Len(Flatten(Groups(qry))) :
            (/\ Offends(Flatten(Groups(qry))[k])
             /\ \A j \in 1..(k - 1) : CompileExpr(Flatten(Groups(qry))[j], FALSE).exc = "") =>
                /\ out.exc = "BadExpression"
                /\ Flatten(Groups(qry))[k].kind = "str" =>
                       out.val = [t |-> "str", v |-> Str(unpar(Flatten(Groups(qry))[k].v))]

----------------------------------------------------------------------------
(* C5 *)

\* C5: "f != b" with a boolean b compiles to {f: not b}, which is not what
\* "f = b" compiles to.
C5_NotEqualBoolean ==
    (/\ Done
     /\ OneAtom
     /\ TheAtom.o = <<"!", "=">>
     /\ ValueOf(TheAtom.v).t = "bool"
     /\ ~HasPick(TheAtom.f)) =>
        /\ out = Ok(Str(TheAtom.f) :> [t |-> "bool", v |-> ~ValueOf(TheAtom.v).v])
        /\ out # AtomAlone(Atom(TheAtom.f, <<"=">>, TheAtom.v))

----------------------------------------------------------------------------
(* C6 *)

\* C6: whatever constraint to_mongo rejects, the exception it raises is
\* BadExpression; so for size> and size< with a negative bound and for size<
\* with the bound 0.
C6_SingleErrorKind ==
    (Done /\ FromConstraints) => out.exc \in {"", "BadExpression"}

----------------------------------------------------------------------------
(* C7 *)

TypeNames == {"number", "int", "integer", "float", "str", "string", "bool", "boolean"}

\* C7: a type constraint is accepted when its value, in lower case, is one
\* of number, int, integer, float, str, string, bool, boolean; with any other
\* value to_mongo raises BadExpression.
C7_TypeNames ==
    (Done /\ OneAtom /\ TheAtom.o = <<"t", "y", "p", "e">>) =>
        IF ValueOf(TheAtom.v).t = "str" /\ Str(ToLower(ValueOf(TheAtom.v).v)) \in TypeNames
        THEN out.exc = ""
        ELSE out.exc = "BadExpression"

----------------------------------------------------------------------------
(* C8 *)

\* C8: an inequality (>, >=, <, <=) with an integer or a float is accepted;
\* with a boolean, a quoted string or a bare identifier to_mongo raises
\* BadExpression.
C8_InequalityNumeric ==
    (Done /\ OneAtom /\ TheAtom.o \in {<<">">>, <<">", "=">>, <<"<">>, <<"<", "=">>}) =>
        IF ValueOf(TheAtom.v).t \in {"int", "float"}
        THEN out.exc = ""
        ELSE out.exc = "BadExpression"

----------------------------------------------------------------------------
(* C9 *)

\* the constraint a with its field named by the dotted path name.sub
Dotted(c) == [c EXCEPT !.field.name = c.field.name \o "." \o c.field.sub_name]

\* the document of the constraint a when its field is rendered as name.sub
DottedDoc(a) ==
    group_filter(
        Ok(add_clause(NewQuery,
                      MongoClause(Dotted(Constraint(a.f, Str(a.o), ValueOf(a.v)).val),
                                  FALSE, FALSE).val)),
        FALSE)

\* C9: the fragment of a constraint on name/sub is keyed by name.sub when
\* native and references this.name.sub when scripted; a field without a pick
\* is keyed by its name.
C9_DottedPath ==
    (Done /\ OneAtom /\ out.exc = "") =>
        IF HasPick(TheAtom.f)
        THEN out = DottedDoc(TheAtom)
        ELSE DOMAIN out.val \subseteq {Str(TheAtom.f), "$where"}

----------------------------------------------------------------------------
(* C10 *)

ScriptedOps == {<<"t", "y", "p", "e">>, <<"s", "i", "z", "e", ">">>,
                <<"s", "i", "z", "e", "<">>, <<"s", "i", "z", "e", "$">>}

IsScripted(a) == a.o \in ScriptedOps

IsNative(a) == a.o \notin ScriptedOps

\* the predicate string of the scripted constraint a
Predicate(a) == AtomAlone(a).val["$where"].v

Predicates(as) == [i \in 1..Len(as) |-> Predicate(as[i])]

\* the keys of the native constraints of as
NativeKeys(as) == UNION {DOMAIN AtomAlone(as[i]).val : i \in 1..Len(as)}

TypeJs(name) ==
    CASE name \in {"number", "int", "integer", "float"} -> "number"
      [] name \in {"str", "string"}                     -> "string"
      [] OTHER                                          -> "boolean"

\* C10: in the document of one AND-group the predicates of the scripted
\* constraints (type, size>, size<, size$) are joined in clause order with
\* " && " into one string under the key $where, next to the keys of the
\* native constraints and under no other key; a group of scripted
\* constraints only gives exactly {$where: string}; "f type T" contributes
\* typeof this.f == "js", js being number, string or boolean by T.
C10_WhereAssembly ==
    (Done /\ OneGroup /\ out.exc = "") =>
        /\ ("$where" \in DOMAIN out.val) <=> (SelectSeq(src.groups[1], IsScripted) # <<>>)
        /\ SelectSeq(src.groups[1], IsScripted) # <<>> =>
               out.val["$where"] =
                   [t |-> "str",
                    v |-> Join(Predicates(SelectSeq(src.groups[1], IsScripted)), " && ")]
        /\ DOMAIN out.val \ {"$where"} = NativeKeys(SelectSeq(src.groups[1], IsNative))
        /\ (OneAtom /\ TheAtom.o = <<"t", "y", "p", "e">> /\ ~HasPick(TheAtom.f)) =>
               out = Ok("$where" :>
                          [t |-> "str",
                           v |-> "typeof this." \o Str(TheAtom.f) \o " == \""
                                 \o TypeJs(Str(ToLower(TheAtom.v))) \o "\""])

\* a group of two scripted constraints gave a document of the one key $where
C10_Witness ==
    /\ Done
    /\ OneGroup
    /\ Len(src.groups[1]) = 2
    /\ \A j \in 1..2 : IsScripted(src.groups[1][j])
    /\ out.exc = ""
    /\ DOMAIN out.val = {"$where"}

----------------------------------------------------------------------------
(* C14 *)

SizeEq == <<"s", "i", "z", "e">>

SizeGt == <<"s", "i", "z", "e", ">">>

SizeLt == <<"s", "i", "z", "e", "<">>

\* the document {$where: 'this.f.length op n'}
LengthTest(f, op, n) ==
    Ok("$where" :> [t |-> "str",
                    v |-> "this." \o Str(f) \o ".length " \o op \o " " \o IntStr(n)])

\* C14: "x size< 0" fails and "x size 0" gives {x: {$size: 0}}; for every
\* integer n >= 0, "x size> n" gives {$where: 'this.x.length > n'}, and for
\* every integer n >= 1, "x size< n" gives {$where: 'this.x.length < n'}.
C14_SizeBoundsAtZero ==
    (Done /\ OneAtom /\ ~HasPick(TheAtom.f) /\ IsIntText(TheAtom.v)) =>
        /\ (TheAtom.o = SizeLt /\ IntOf(TheAtom.v) = 0) => out.exc # ""
        /\ (TheAtom.o = SizeEq /\ IntOf(TheAtom.v) = 0) =>
               out = Ok(Str(TheAtom.f) :>
                          [t |-> "doc", v |-> "$size" :> [t |-> "int", v |-> 0]])
        /\ (TheAtom.o = SizeGt /\ IntOf(TheAtom.v) >= 0) =>
               out = LengthTest(TheAtom.f, ">", IntOf(TheAtom.v))
        /\ (TheAtom.o = SizeLt /\ IntOf(TheAtom.v) >= 1) =>
               out = LengthTest(TheAtom.f, "<", IntOf(TheAtom.v))

\* "x size> 0" was compiled
C14_Witness ==
    /\ Done
    /\ OneAtom
    /\ ~HasPick(TheAtom.f)
    /\ TheAtom.o = SizeGt
    /\ TheAtom.v = <<"0">>
    /\ out.exc = ""
    /\ DOMAIN out.val = {"$where"}

----------------------------------------------------------------------------
(* C15 *)

\* C15: for every negative integer n, to_mongo fails on "x size n", on
\* "x size> n" and on "x size< n".
C15_NegativeSizeRejected ==
    (/\ Done
     /\ OneAtom
     /\ TheAtom.o \in {SizeEq, SizeGt, SizeLt}
     /\ IsIntText(TheAtom.v)
     /\ IntOf(TheAtom.v) < 0) =>
        out.exc # ""

----------------------------------------------------------------------------
(* C16 *)

\* C16: the string of a valid constraint followed by further text that is
\* not whitespace (a second value, characters directly after a number) does
\* not match the grammar: to_mongo raises BadExpression for it.
C16_WholeStringMatched ==
    (Done /\ src.form = "tail") => out.exc = "BadExpression"

----------------------------------------------------------------------------
(* C18 *)

\* the values x and y of a document are the same
SameValue(x, y) == x.t = y.t /\ x.v = y.v

\* the native constraint at j is the last native one of g on its field
LastOnField(g, j) ==
    /\ IsNative(g[j])
    /\ \A k \in (j + 1)..Len(g) : IsNative(g[k]) => g[k].f # g[j].f

\* C18: the document of one AND-group holds, for every field that native
\* constraints of the group name, exactly the fragment of the last of these
\* constraints (the fragments of the earlier ones are replaced, not merged),
\* so that a field named by one constraint keeps the fragment of that
\* constraint; it holds no other field keys.
C18_LastFragmentPerField ==
    (Done /\ OneGroup /\ out.exc = "") =>
        /\ DOMAIN out.val \ {"$where"} = NativeKeys(SelectSeq(src.groups[1], IsNative))
        /\ \A j \in 1..Len(src.groups[1]) :
              LastOnField(src.groups[1], j) =>
                  \A k \in DOMAIN AtomAlone(src.groups[1][j]).val :
                      SameValue(out.val[k], AtomAlone(src.groups[1][j]).val[k])

----------------------------------------------------------------------------
(* C11 *)

NegationTable(o) ==
    CASE o = ">"  -> "<="
      [] o = ">=" -> "<"
      [] o = "<"  -> ">="
      [] o = "<=" -> ">"
      [] o = "="  -> "!="
      [] o = "!=" -> "="
      [] OTHER    -> o

\* C11: reverse() takes > to <=, >= to <, < to >=, <= to >, = to != and != to
\* =, and leaves exists, size (with its sub-kind) and type as they are;
\* reversing twice gives the operator back; for '~' it raises BadExpression,
\* and so does making a clause of a '~' constraint with rev=True.
C11_Negation ==
    \A i \in 1..Len(out) :
        /\ (out[i].call = "reverse" /\ out[i].before.con.op.op # "~") =>
              /\ out[i].res.exc = ""
              /\ out[i].after.con.op.op = NegationTable(out[i].before.con.op.op)
              /\ out[i].after.con.op.size_code = out[i].before.con.op.size_code
              /\ (i < Len(out) /\ out[i + 1].call = "reverse") =>
                     /\ out[i + 1].res.exc = ""
                     /\ out[i + 1].after.con.op = out[i].before.con.op
        /\ (out[i].call = "reverse" /\ out[i].before.con.op.op = "~") =>
              out[i].res.exc = "BadExpression"
        /\ (out[i].call = "clause" /\ out[i].rev /\ out[i].before.con.op.op = "~") =>
              out[i].res.exc = "BadExpression"

\* an inequality was reversed twice
C11_Witness ==
    /\ Len(out) = 2
    /\ out[1].call = "reverse"
    /\ out[2].call = "reverse"
    /\ out[1].before.con.op.op = ">="
    /\ out[2].after.con.op.op = ">="

----------------------------------------------------------------------------
(* C12 *)

\* the native fragments x and y are the same
SameFragment(x, y) ==
    /\ DOMAIN x = DOMAIN y
    /\ \A k \in DOMAIN x : SameValue(x[k], y[k])

\* the constraint c with its operator negated
Negation(c) == [c EXCEPT !.op.op = NegationTable(@)]

\* C12: for a constraint (f, op, v) with op among =, !=, >, >=, <, <= the
\* fragment MongoClause yields with rev=True is the fragment it yields with
\* rev=False for (f, negate(op), v).
C12_ReversalIsNegation ==
    \A i \in 1..Len(out) :
        (/\ out[i].call = "clause"
         /\ out[i].rev
         /\ out[i].before.con.op.op \in {"=", "!=", ">", ">=", "<", "<="}) =>
            /\ out[i].res.exc = ""
            /\ MongoClause(Negation(out[i].before.con), FALSE, out[i].exists_main).exc = ""
            /\ SameFragment(
                   out[i].res.val.expr,
                   MongoClause(Negation(out[i].before.con), FALSE, out[i].exists_main).val.expr)

----------------------------------------------------------------------------
(* C13 *)

\* C13: for an exists constraint with the boolean b, MongoClause yields the
\* native fragment {f: {$exists: b}} with rev=False and {f: {$exists: not b}}
\* with rev=True: one key, the tag $exists, the boolean negated once.
C13_ExistsReversal ==
    \A i \in 1..Len(out) :
        (/\ out[i].call = "clause"
         /\ out[i].before.con.op.op = "exists"
         /\ out[i].before.con.value.t = "bool") =>
            /\ out[i].res.exc = ""
            /\ out[i].res.val.loc \in {LOC_MAIN, LOC_MAIN2}
            /\ Cardinality(DOMAIN out[i].res.val.expr) = 1
            /\ ~out[i].before.con.field.has_subfield =>
                   DOMAIN out[i].res.val.expr = {Str(src.f)}
            /\ \A k \in DOMAIN out[i].res.val.expr :
                   /\ out[i].res.val.expr[k].t = "doc"
                   /\ out[i].res.val.expr[k].v =
                          ("$exists" :> [t |-> "bool",
                                         v |-> (out[i].before.con.value.v # out[i].rev)])

\* a clause was made of "exists true" with rev=True
C13_Witness ==
    /\ Len(out) >= 1
    /\ out[1].call = "clause"
    /\ out[1].rev
    /\ out[1].before.con.op.op = "exists"
    /\ out[1].before.con.value.t = "bool"
    /\ out[1].before.con.value.v
    /\ out[1].res.exc = ""

----------------------------------------------------------------------------
(* C17 *)

----------------------------------------------------------------------------
(* C19 *)

\* the document MongoQuery.to_mongo has built of the native clauses when it
\* comes to the where clauses
NativeDoc == MergeMain2(main_clauses(Exprs(qry.main), Len(qry.where), out.disjunction),
                        Exprs(qry.main2)).val

\* the one branch the where clauses make
WhereBranch ==
    "$where" :> [t |-> "str",
                 v |-> Join(Exprs(qry.where), IF src.rev THEN " || " ELSE " && ")]

\* to_mongo has returned a document for a query with where clauses
Scripted == pc = "done" /\ out.res.exc = "" /\ qry.where # <<>>

\* the document d is NativeDoc with WhereBranch as one more branch of $or
AsBranch(d, branches) ==
    /\ DOMAIN d = DOMAIN NativeDoc \cup {"$or"}
    /\ "$where" \notin DOMAIN d
    /\ d["$or"].t = "list"
    /\ d["$or"].v = branches \o <<WhereBranch>>
    /\ \A k \in DOMAIN NativeDoc \ {"$or"} : SameValue(d[k], NativeDoc[k])

\* the document d is NativeDoc with the key $where at the top level
AtTopLevel(d) ==
    /\ DOMAIN d = DOMAIN NativeDoc \cup {"$where"}
    /\ "$or" \notin DOMAIN d
    /\ SameValue(d["$where"], WhereBranch["$where"])
    /\ \A k \in DOMAIN NativeDoc : SameValue(d[k], NativeDoc[k])

\* C19 as stated: the joined predicate becomes one more branch of $or
\* exactly when the document of the native clauses holds the key $or;
\* otherwise it stands at the top level under $where and there is no $or.
C19_BranchIffOrPresent ==
    Scripted =>
        IF "$or" \in DOMAIN NativeDoc
        THEN AsBranch(out.res.val, NativeDoc["$or"].v)
        ELSE AtTopLevel(out.res.val)

\* C19: the disjunction flag decides. With disjunction=True the joined
\* predicate becomes the last branch of $or, after the branches the document
\* of the native clauses holds, the list being made when there is none; with
\* disjunction=False it stands at the top level under $where and there is no
\* $or.
C19_BranchIffDisjunction ==
    Scripted =>
        IF out.disjunction
        THEN AsBranch(out.res.val,
                      IF "$or" \in DOMAIN NativeDoc THEN NativeDoc["$or"].v ELSE <<>>)
        ELSE AtTopLevel(out.res.val)

\* with disjunction=True a query of where clauses only gave {$or: [{$where}]}
C19_Witness ==
    /\ Scripted
    /\ out.disjunction
    /\ qry.main = <<>>
    /\ Len(qry.where) = 2
    /\ DOMAIN out.res.val = {"$or"}

----------------------------------------------------------------------------
(* C20 *)

\* a constraint with an inequality operator has been added to the group
RangeAdded == \E i \in DOMAIN qry.constraints : is_inequality(qry.constraints[i].op)

\* C20: after any sequence of add_constraint calls get_conflicts returns a
\* non-empty list exactly when the field of the group has a subfield pick and
\* a constraint with an inequality operator has been added.
C20_RangeOnArray ==
    (out.conflicts # <<>>) <=> (Field(src).has_subfield /\ RangeAdded)

====
